---- MODULE Spec2Model ----
(***************************************************************************)
(* Model of final_script.py: the ticker loop with its per-symbol           *)
(* try/except boundary, the daily breakout backtest with compounding       *)
(* capital, the per-symbol summary and the master summary report.          *)
(*                                                                         *)
(* Prices are whole numbers of rupees; amounts computed from them are      *)
(* whole numbers too, so round(x, 2) of an amount is the amount itself.    *)
(* The win rate is the only non-integral quantity: it is kept as an exact  *)
(* fraction and rounded to two decimals the way line 179 rounds it.        *)
(*                                                                         *)
(* The rows of a day are read only in the loop iteration of that day       *)
(* (line 84), so the model draws a day's bars when the iteration runs.     *)
(***************************************************************************)
EXTENDS Integers, Sequences, FiniteSets

\* ------------------------------------------------------------------ bounds

MaxBars == 2

MaxDays == 2

MaxTickers == 2

\* Sessions backtested in one run, over all symbols.
MaxSessions == 3

\* ------------------------------------------------------------------ config

initial_capital == 100000

TickerNames == <<"RELIANCE.NS", "TCS.NS", "INFY.NS", "HDFCBANK.NS">>

\* Cleaned data: strictly positive prices.
CleanPrices == {1, 2, 5}

\* Data as downloaded, with bad ticks: a zero and a negative price.
RawPrices == {-1, 0, 1}

Trends == {"Upside Follow", "Upside Fake", "Downside Follow", "Downside Fake", "Neutral"}

\* Python's None for the Entry column, and a present entry price.
None == <<>>

Some(p) == <<p>>

\* ------------------------------------------------------------------ inputs

Bars(P) == {b \in [High : P, Low : P, Close : P] : b.Low <= b.Close /\ b.Close <= b.High}

\* The two days of the end-to-end scenario.
ScenarioDay1 ==
    << [High |-> 100, Low |-> 95, Close |-> 98],
       [High |-> 105, Low |-> 97, Close |-> 104],
       [High |-> 112, Low |-> 103, Close |-> 110] >>

ScenarioDay2 ==
    << [High |-> 50, Low |-> 45, Close |-> 47],
       [High |-> 48, Low |-> 40, Close |-> 42] >>

DaysOver(P) == UNION {[1..n -> Bars(P)] : n \in 1..MaxBars}

CleanDays == DaysOver(CleanPrices) \cup {ScenarioDay1, ScenarioDay2}

RawDays == DaysOver(RawPrices)

TickerLists == {SubSeq(TickerNames, 1, n) : n \in 0..MaxTickers}

\* ------------------------------------------------------------------ state

VARIABLES tickers, idx, pc, day_data, results, current_capital, stats,
          master_results, master_summary, out

vars == <<tickers, idx, pc, day_data, results, current_capital, stats,
          master_results, master_summary, out>>

\* One printed line: what it reports, for which symbol, and the exception text
\* that line 186 interpolates ("" elsewhere).
Msg(m, s) == [msg |-> m, symbol |-> s, detail |-> ""]

ErrorMsg(s, e) == [msg |-> "error", symbol |-> s, detail |-> e]

NoStats == [total_trades |-> 0, follow_trades |-> 0, win_num |-> 0, win_den |-> 1,
            upside_follow |-> 0, downside_follow |-> 0, upside_fake |-> 0,
            downside_fake |-> 0, final_capital |-> 0, total_profit |-> 0]

Init ==
    /\ tickers \in TickerLists
    /\ idx = 1
    /\ pc = "fetch"
    /\ day_data = <<>>
    /\ results = <<>>
    /\ current_capital = initial_capital
    /\ stats = NoStats
    /\ master_results = <<>>
    /\ master_summary = <<>>
    /\ out = <<>>

\* ------------------------------------------------------------------ helpers

Abs(x) == IF x < 0 THEN -x ELSE x

\* int(n / d): Python's int() truncates towards zero.
IntTrunc(n, d) ==
    IF (n >= 0) = (d > 0) THEN Abs(n) \div Abs(d) ELSE -(Abs(n) \div Abs(d))

first_high(day) == day[1].High

first_low(day) == day[1].Low

last_close(day) == day[Len(day)].Close

AnyHighAbove(day, x) == \E i \in DOMAIN day : day[i].High > x

AnyLowBelow(day, x) == \E i \in DOMAIN day : day[i].Low < x

\* ------------------------------------------------------------------ backtest

\* Classify with the downside test ahead of the upside test.
ClassifyDownsideFirst(day) ==
    IF AnyLowBelow(day, first_low(day))
    THEN [entry |-> Some(first_low(day)),
          trend |-> IF last_close(day) < first_low(day)
                    THEN "Downside Follow" ELSE "Downside Fake"]
    ELSE IF AnyHighAbove(day, first_high(day))
    THEN [entry |-> Some(first_high(day)),
          trend |-> IF last_close(day) > first_high(day)
                    THEN "Upside Follow" ELSE "Upside Fake"]
    ELSE [entry |-> None, trend |-> "Neutral"]

\* Classify with `entry = first_high` hoisted above the breakout tests.
ClassifyEntryHoisted(day) ==
    IF AnyHighAbove(day, first_high(day))
    THEN [entry |-> Some(first_high(day)),
          trend |-> IF last_close(day) > first_high(day)
                    THEN "Upside Follow" ELSE "Upside Fake"]
    ELSE IF AnyLowBelow(day, first_low(day))
    THEN [entry |-> Some(first_low(day)),
          trend |-> IF last_close(day) < first_low(day)
                    THEN "Downside Follow" ELSE "Downside Fake"]
    ELSE [entry |-> Some(first_high(day)), trend |-> "Neutral"]

\* Lines 90-106: the breakout decision of one day, first match wins.
Classify(day) ==
    IF AnyHighAbove(day, first_high(day))
    THEN [entry |-> Some(first_high(day)),
          trend |-> IF last_close(day) > first_high(day)
                    THEN "Upside Follow" ELSE "Upside Fake"]
    ELSE IF AnyLowBelow(day, first_low(day))
    THEN [entry |-> Some(first_low(day)),
          trend |-> IF last_close(day) < first_low(day)
                    THEN "Downside Follow" ELSE "Downside Fake"]
    ELSE [entry |-> None, trend |-> "Neutral"]

\* Lines 99 and 105 divide by the entry price: ZeroDivisionError when it is 0.
ZeroDivision(day) == Classify(day).entry = Some(0)

\* Lines 94, 99, 105: invested_qty.
InvestedQty(capital, entry) ==
    IF entry = None THEN 0 ELSE IntTrunc(capital, entry[1])

\* PnL with the long formula used on both sides.
PnLLongOnly(trend, entry, exit_price, qty) ==
    IF trend = "Neutral" THEN 0 ELSE (exit_price - entry[1]) * qty

\* Lines 93, 101, 107: pnl.
PnL(trend, entry, exit_price, qty) ==
    IF trend \in {"Upside Follow", "Upside Fake"} THEN (exit_price - entry[1]) * qty
    ELSE IF trend \in {"Downside Follow", "Downside Fake"} THEN (entry[1] - exit_price) * qty
    ELSE 0

\* Line 109 as `current_capital = initial_capital + pnl`: no compounding.
CapitalAfterNoCarry(capital, pnl) == initial_capital + pnl

\* Line 109: current_capital += pnl.
CapitalAfter(capital, pnl) == capital + pnl

\* Lines 111-119: the row appended for the day.
Trade(day, capital, date) ==
    LET c == Classify(day)
        qty == InvestedQty(capital, c.entry)
        pnl == PnL(c.trend, c.entry, last_close(day), qty)
    IN [Date |-> date, Trend |-> c.trend, Entry |-> c.entry, Exit |-> last_close(day),
        Quantity |-> qty, PnL |-> pnl, Capital |-> CapitalAfter(capital, pnl)]

\* ------------------------------------------------------------------ summary

\* Line 125: value_counts() of the Trend column, read with .get(label, 0).
ValueCount(rows, label) == Cardinality({i \in DOMAIN rows : rows[i].Trend = label})

\* Line 127: follow_trades.
FollowTrades(rows) == ValueCount(rows, "Upside Follow") + ValueCount(rows, "Downside Follow")

\* Line 128: win_rate as the exact fraction num/den.
WinRate(follow, total) ==
    IF total > 0 THEN [num |-> follow * 100, den |-> total] ELSE [num |-> 0, den |-> 1]

\* round(x, 2) of the fraction num/den (num >= 0), in hundredths, ties to even.
Round2(num, den) ==
    LET q == (num * 100) \div den
        r == (num * 100) % den
    IN IF 2 * r > den THEN q + 1
       ELSE IF 2 * r < den THEN q
       ELSE IF q % 2 = 0 THEN q ELSE q + 1

\* Lines 121-128: the locals computed from the finished trade log.
Summary(rows, capital) ==
    [total_trades |-> Len(rows),
     follow_trades |-> FollowTrades(rows),
     win_num |-> WinRate(FollowTrades(rows), Len(rows)).num,
     win_den |-> WinRate(FollowTrades(rows), Len(rows)).den,
     upside_follow |-> ValueCount(rows, "Upside Follow"),
     downside_follow |-> ValueCount(rows, "Downside Follow"),
     upside_fake |-> ValueCount(rows, "Upside Fake"),
     downside_fake |-> ValueCount(rows, "Downside Fake"),
     final_capital |-> capital,
     total_profit |-> capital - initial_capital]

\* Lines 172-183: the row appended to master_results.
MasterRow(symbol, s) ==
    [Ticker |-> symbol, TotalTrades |-> s.total_trades,
     UpsideFollow |-> s.upside_follow, DownsideFollow |-> s.downside_follow,
     UpsideFake |-> s.upside_fake, DownsideFake |-> s.downside_fake,
     WinRatePct100 |-> Round2(s.win_num, s.win_den),
     FinalCapital |-> s.final_capital, Profit |-> s.total_profit,
     TotalProfitYearEnd |-> s.final_capital - initial_capital]

\* The best performer taken as the first row.
IdxFirst(rows) == 1

\* Lines 194-195: idxmax / idxmin return the first row holding the extreme.
IdxMax(rows) ==
    CHOOSE i \in DOMAIN rows :
        /\ \A j \in DOMAIN rows : rows[j].FinalCapital <= rows[i].FinalCapital
        /\ \A j \in 1..(i - 1) : rows[j].FinalCapital < rows[i].FinalCapital

IdxMin(rows) ==
    CHOOSE i \in DOMAIN rows :
        /\ \A j \in DOMAIN rows : rows[j].FinalCapital >= rows[i].FinalCapital
        /\ \A j \in 1..(i - 1) : rows[j].FinalCapital > rows[i].FinalCapital

\* Line 191: `if master_results:`.
HasResults(rows) == rows # <<>>

\* ------------------------------------------------------------------ actions

symbol == tickers[idx]

\* The except clause placed outside the ticker loop: an error ends the loop.
AfterErrorAbort == "report"

\* Lines 185-186 then the next iteration of line 37.
AfterError == "fetch"

\* Line 52: `continue`.
AfterSkip == "fetch"

\* The except clause of lines 185-186.  day_data and the summary locals are
\* scratch of one iteration, dead once it ends: the model clears them there.
Raise(e) ==
    /\ out' = out \o <<ErrorMsg(symbol, e)>>
    /\ idx' = idx + 1
    /\ pc' = AfterError
    /\ day_data' = <<>>
    /\ stats' = NoStats

\* Lines 39-48 (or 55-72) raising: network or file error.
FetchRaises ==
    /\ pc = "fetch" /\ idx <= Len(tickers)
    /\ out' = out \o <<Msg("fetching", symbol), ErrorMsg(symbol, "download failed")>>
    /\ idx' = idx + 1
    /\ pc' = AfterError
    /\ UNCHANGED <<tickers, day_data, results, current_capital, stats,
                   master_results, master_summary>>

\* Lines 39-52: data.empty.
FetchEmpty ==
    /\ pc = "fetch" /\ idx <= Len(tickers)
    /\ out' = out \o <<Msg("fetching", symbol), Msg("nodata", symbol)>>
    /\ idx' = idx + 1
    /\ pc' = AfterSkip
    /\ UNCHANGED <<tickers, day_data, results, current_capital, stats,
                   master_results, master_summary>>

\* Lines 39-80: data fetched and cleaned, backtest state initialised.
FetchData ==
    /\ pc = "fetch" /\ idx <= Len(tickers)
    /\ out' = out \o <<Msg("fetching", symbol), Msg("cleaned", symbol)>>
    /\ results' = <<>>
    /\ current_capital' = initial_capital
    /\ pc' = "loop"
    /\ UNCHANGED <<tickers, idx, day_data, stats, master_results, master_summary>>

RECURSIVE SessionsRecorded(_)
SessionsRecorded(rows) ==
    IF rows = <<>> THEN 0 ELSE rows[1].TotalTrades + SessionsRecorded(Tail(rows))

\* Lines 82-119: one iteration of the day loop over the bars of the next date.
BacktestDay(Days) ==
    /\ pc = "loop" /\ Len(results) < MaxDays
    /\ SessionsRecorded(master_results) + Len(results) < MaxSessions
    /\ \E day \in Days :
        IF ZeroDivision(day)
        THEN /\ Raise("division by zero")
             /\ UNCHANGED <<results, current_capital>>
        ELSE /\ day_data' = day
             /\ results' = Append(results, Trade(day, current_capital, Len(results) + 1))
             /\ current_capital' = Trade(day, current_capital, Len(results) + 1).Capital
             /\ UNCHANGED <<idx, pc, out, stats>>
    /\ UNCHANGED <<tickers, master_results, master_summary>>

\* Lines 121-128 once the day loop is exhausted.  pd.DataFrame([]) has no
\* "Trend" column, so line 125 raises KeyError on an empty trade log.
Summarise(minDays) ==
    /\ pc = "loop" /\ Len(results) >= minDays
    /\ IF results = <<>>
       THEN Raise("'Trend'")
       ELSE /\ stats' = Summary(results, current_capital)
            /\ pc' = "save"
            /\ UNCHANGED <<idx, out, day_data>>
    /\ UNCHANGED <<tickers, results, current_capital, master_results, master_summary>>

\* Lines 133-183: backtest workbook written, summary row appended.
SaveBacktest ==
    /\ pc = "save"
    /\ out' = out \o <<Msg("saved", symbol)>>
    /\ master_results' = Append(master_results, MasterRow(symbol, stats))
    /\ idx' = idx + 1
    /\ pc' = "fetch"
    /\ day_data' = <<>>
    /\ stats' = NoStats
    /\ UNCHANGED <<tickers, results, current_capital, master_summary>>

\* Lines 133-166 raising: the workbook cannot be written.
SaveRaises ==
    /\ pc = "save"
    /\ Raise("write failed")
    /\ UNCHANGED <<tickers, results, current_capital, master_results, master_summary>>

\* Line 37: the ticker list is exhausted.
ExitLoop ==
    /\ pc = "fetch" /\ idx > Len(tickers)
    /\ pc' = "report"
    /\ UNCHANGED <<tickers, idx, day_data, results, current_capital, stats,
                   master_results, master_summary, out>>

\* Lines 191-249: the master summary, or the message that none was created.
Report ==
    /\ pc = "report"
    /\ IF HasResults(master_results)
       THEN /\ master_summary' = <<[rows |-> master_results,
                                    best |-> master_results[IdxMax(master_results)],
                                    worst |-> master_results[IdxMin(master_results)]]>>
            /\ out' = out \o <<Msg("master_saved", "")>>
       ELSE /\ master_summary' = master_summary
            /\ out' = out \o <<Msg("none_processed", "")>>
    /\ pc' = "done"
    /\ UNCHANGED <<tickers, idx, day_data, results, current_capital, stats, master_results>>

\* Cleaned input: positive prices, at least one dated session per symbol.
Next ==
    \/ FetchRaises
    \/ FetchEmpty
    \/ FetchData
    \/ BacktestDay(CleanDays)
    \/ Summarise(1)
    \/ SaveBacktest
    \/ SaveRaises
    \/ ExitLoop
    \/ Report

Spec == Init /\ [][Next]_vars

\* Input as downloaded: zero and negative ticks, and rows without a date
\* (groupby drops them, so a non-empty download may hold no session).
NextRaw ==
    \/ FetchRaises
    \/ FetchEmpty
    \/ FetchData
    \/ BacktestDay(RawDays)
    \/ Summarise(0)
    \/ SaveBacktest
    \/ SaveRaises
    \/ ExitLoop
    \/ Report

SpecRaw == Init /\ [][NextRaw]_vars

\* ------------------------------------------------------------------ properties

Last(s) == s[Len(s)]

\* The capital a symbol carries into its i-th session.
CapitalBefore(rows, i) == IF i = 1 THEN initial_capital ELSE rows[i - 1].Capital

UpsideTrends == {"Upside Follow", "Upside Fake"}

DownsideTrends == {"Downside Follow", "Downside Fake"}

\* C1: the Capital of the i-th trade of a symbol is the Capital of the
\* (i-1)-th trade plus the i-th PnL, the first one starting from the initial
\* capital of 100000; the running capital is the initial capital when a
\* symbol's backtest starts and the last trade's Capital after every session.
C1_CapitalChain ==
    /\ \A i \in DOMAIN results :
          results[i].Capital = CapitalBefore(results, i) + results[i].PnL
    /\ pc \in {"loop", "save"} =>
          current_capital = CapitalBefore(results, Len(results) + 1)

\* The second symbol of the list, after a first symbol that made a profit or
\* a loss, has gone through two sessions that both moved its capital.
C1_Witness ==
    /\ idx = 2 /\ pc = "loop"
    /\ Len(master_results) = 1 /\ master_results[1].Profit # 0
    /\ Len(results) = 2 /\ results[1].PnL # 0 /\ results[2].PnL # 0

\* C2: every session appends exactly one trade to the log, earlier trades
\* untouched; its Trend is one of the five labels, its Entry is None exactly
\* when the Trend is Neutral, and a Neutral session has Quantity 0, PnL 0 and
\* leaves the running capital as it was.
C2_OneTradePerSession ==
    [][(pc = "loop" /\ pc' = "loop") =>
         /\ Len(results') = Len(results) + 1
         /\ SubSeq(results', 1, Len(results)) = results
         /\ Last(results').Trend \in Trends
         /\ (Last(results').Entry = None) <=> (Last(results').Trend = "Neutral")
         /\ Last(results').Trend = "Neutral" =>
               /\ Last(results').Quantity = 0
               /\ Last(results').PnL = 0
               /\ Last(results').Capital = current_capital
               /\ current_capital' = current_capital]_vars

\* A Neutral session follows a session that moved the capital.
C2_Witness ==
    /\ pc = "loop" /\ Len(results) = 2
    /\ results[1].PnL # 0
    /\ results[2].Trend = "Neutral" /\ results[2].Entry = None
    /\ current_capital # initial_capital

\* C3: the trade of the day just processed follows the priority rule on the
\* day's bars: a High above the reference High gives Entry = reference High
\* and Upside Follow when the last Close is above it, else Upside Fake;
\* failing that, a Low below the reference Low gives Entry = reference Low
\* and Downside Follow when the last Close is below it, else Downside Fake;
\* failing both, Neutral.  A day breaking both sides is Upside.
C3_PriorityRule ==
    (results # <<>> /\ day_data # <<>>) =>
        LET t == Last(results)
            ref == day_data[1]
            close == day_data[Len(day_data)].Close
            up == \E i \in 1..Len(day_data) : day_data[i].High > ref.High
            down == \E i \in 1..Len(day_data) : day_data[i].Low < ref.Low
        IN /\ up => /\ t.Entry = Some(ref.High)
                    /\ t.Trend = IF close > ref.High THEN "Upside Follow" ELSE "Upside Fake"
           /\ (~up /\ down) =>
                    /\ t.Entry = Some(ref.Low)
                    /\ t.Trend = IF close < ref.Low THEN "Downside Follow" ELSE "Downside Fake"
           /\ (~up /\ ~down) => (t.Trend = "Neutral" /\ t.Entry = None)
           /\ (up /\ down) => t.Trend \in UpsideTrends

\* The day just processed broke the reference High and the reference Low.
C3_Witness ==
    /\ results # <<>> /\ day_data # <<>>
    /\ \E i \in 1..Len(day_data) : day_data[i].High > day_data[1].High
    /\ \E i \in 1..Len(day_data) : day_data[i].Low < day_data[1].Low
    /\ Last(results).Trend \in UpsideTrends

\* C4: in every trade, Quantity is floor(capital before the session / Entry)
\* when Entry is present and 0 otherwise, and Quantity is never negative.
C4_QuantityFloor ==
    \A i \in DOMAIN results :
        /\ results[i].Quantity =
              IF results[i].Entry = None THEN 0
              ELSE CapitalBefore(results, i) \div results[i].Entry[1]
        /\ results[i].Quantity >= 0

IsFetching(m) == m.msg = "fetching"

IsOutcome(m) == m.msg \in {"nodata", "error", "saved"}

IsSaved(m) == m.msg = "saved"

SymbolsOf(msgs) == [i \in 1..Len(msgs) |-> msgs[i].symbol]

\* C5: every symbol of the list is attempted, in list order, whatever happened
\* to the symbols before it; each attempted symbol ends in exactly one of
\* skipped, failed and saved; master_results holds one summary per saved
\* symbol, in list order, and none for a skipped or failed one.
C5_FailuresIsolated ==
    /\ SymbolsOf(SelectSeq(out, IsOutcome)) = SubSeq(tickers, 1, idx - 1)
    /\ SymbolsOf(SelectSeq(out, IsFetching)) =
          SubSeq(tickers, 1, IF pc \in {"loop", "save"} THEN idx ELSE idx - 1)
    /\ [i \in 1..Len(master_results) |-> master_results[i].Ticker] =
          SymbolsOf(SelectSeq(out, IsSaved))
    /\ pc \in {"report", "done"} => idx = Len(tickers) + 1

\* The run is over; the first symbol raised in its backtest and the second
\* one still produced the only summary.
C5_Witness ==
    /\ pc = "done" /\ Len(tickers) = 2
    /\ \E m \in {out[i] : i \in 1..Len(out)} :
          m.msg = "error" /\ m.symbol = tickers[1] /\ m.detail = "division by zero"
    /\ Len(master_results) = 1 /\ master_results[1].Ticker = tickers[2]

\* C6: a non-positive breakout Entry aborts the symbol: no trade with an
\* Entry of zero or less is ever recorded.
C6_NonPositiveEntryAborts ==
    \A i \in DOMAIN results :
        results[i].Entry # None => results[i].Entry[1] > 0

\* C7: the summary of a finished trade log has TotalTrades = its length, the
\* exact per-label counts and WinRate = 100 * follows / TotalTrades (0 for an
\* empty log, between 0 and 100 always), and summarising never fails.
C7_SummaryOfTradeLog ==
    /\ pc = "save" =>
          /\ stats.total_trades = Len(results)
          /\ \A l \in Trends \ {"Neutral"} :
                Cardinality({i \in DOMAIN results : results[i].Trend = l}) =
                   CASE l = "Upside Follow" -> stats.upside_follow
                     [] l = "Downside Follow" -> stats.downside_follow
                     [] l = "Upside Fake" -> stats.upside_fake
                     [] l = "Downside Fake" -> stats.downside_fake
          /\ stats.win_den > 0
          /\ stats.win_num * stats.total_trades =
                100 * stats.win_den *
                   Cardinality({i \in DOMAIN results :
                                   results[i].Trend \in {"Upside Follow", "Downside Follow"}})
          /\ stats.total_trades = 0 => stats.win_num = 0
          /\ 0 <= stats.win_num /\ stats.win_num <= 100 * stats.win_den
    /\ \A i \in 1..Len(out) : ~(out[i].msg = "error" /\ out[i].detail = "'Trend'")

\* C8: once the run is over, the master summary exists exactly when some
\* symbol produced a summary; it then holds all rows, a best performer of
\* maximal and a worst performer of minimal Final Capital; otherwise nothing
\* is built and the last line printed says that no ticker was processed.
\* Before the report step there is neither a summary nor that line.
C8_ReportIffResults ==
    /\ pc = "done" =>
          /\ (master_summary # <<>>) <=> (master_results # <<>>)
          /\ master_results = <<>> => Last(out) = Msg("none_processed", "")
          /\ master_results # <<>> =>
                /\ Last(out) = Msg("master_saved", "")
                /\ master_summary[1].rows = master_results
                /\ \E i \in 1..Len(master_results) : master_summary[1].best = master_results[i]
                /\ \E i \in 1..Len(master_results) : master_summary[1].worst = master_results[i]
                /\ \A i \in 1..Len(master_results) :
                      /\ master_results[i].FinalCapital <= master_summary[1].best.FinalCapital
                      /\ master_results[i].FinalCapital >= master_summary[1].worst.FinalCapital
    /\ pc # "done" =>
          /\ master_summary = <<>>
          /\ \A i \in 1..Len(out) : out[i].msg \notin {"none_processed", "master_saved"}

\* The report names the second of two symbols as the best performer.
C8_Witness ==
    /\ pc = "done" /\ Len(master_results) = 2
    /\ master_results[1].FinalCapital < master_results[2].FinalCapital
    /\ master_summary # <<>>
    /\ master_summary[1].best.Ticker = tickers[2]
    /\ master_summary[1].worst.Ticker = tickers[1]

\* C9: PnL is (Exit - Entry) * Quantity on an Upside trade, (Entry - Exit) *
\* Quantity on a Downside trade and 0 on a Neutral one; Exit is the Close of
\* the day's last bar, Neutral days included.  The scenario (Entry 100, Exit
\* 110 on day 1; Entry 45, Exit 42 on day 2) gives Quantity 1000, PnL 10000,
\* Capital 110000, then Quantity 2444, PnL 7332, Capital 117332.
C9_PnLAndExit ==
    /\ \A i \in DOMAIN results :
          LET t == results[i]
          IN /\ t.Trend \in UpsideTrends => t.PnL = (t.Exit - t.Entry[1]) * t.Quantity
             /\ t.Trend \in DownsideTrends => t.PnL = (t.Entry[1] - t.Exit) * t.Quantity
             /\ t.Trend = "Neutral" => t.PnL = 0
    /\ (results # <<>> /\ day_data # <<>>) =>
          Last(results).Exit = day_data[Len(day_data)].Close
    /\ (results # <<>> /\ day_data = ScenarioDay1 /\ Len(results) = 1) =>
          /\ results[1].Trend = "Upside Follow" /\ results[1].Entry = Some(100)
          /\ results[1].Quantity = 1000 /\ results[1].PnL = 10000
          /\ results[1].Capital = 110000
    /\ (Len(results) = 2 /\ day_data = ScenarioDay2
          /\ results[1].Entry = Some(100) /\ results[1].Exit = 110) =>
          /\ results[2].Trend = "Downside Follow" /\ results[2].Entry = Some(45)
          /\ results[2].Quantity = 2444 /\ results[2].PnL = 7332
          /\ results[2].Capital = 117332 /\ current_capital = 117332

\* The second day of the scenario has just been processed after the first.
C9_Witness ==
    /\ Len(results) = 2 /\ day_data = ScenarioDay2
    /\ results[1].Entry = Some(100) /\ results[1].Exit = 110
    /\ results[1].Capital = 110000

\* C10: with strictly positive prices the running capital is never negative.
C10_CapitalNonNegative ==
    /\ current_capital >= 0
    /\ \A i \in DOMAIN results : results[i].Capital >= 0

====
